---------------------------- MODULE Spec2Model ----------------------------
(***************************************************************************)
(* Model of src/cascadia/TerminalApp/FilteredCommand.cpp: the command      *)
(* palette's view model of one command.  It holds a filter, the command    *)
(* name split into highlighted / not highlighted segments                  *)
(* (_computeHighlightedName), a weight computed from the segments          *)
(* (_computeWeight) and an ordering of two view models (Compare).          *)
(*                                                                         *)
(* Strings are sequences of UTF-16 code units (integers); offsets are      *)
(* 0-based as in the source, so commandName[i] of the source is            *)
(* commandName[i + 1] here.                                                *)
(***************************************************************************)
EXTENDS Integers, Sequences, FiniteSets

VARIABLES
    scan,       \* SpecSeg: one call of _computeHighlightedName, its locals
    probe,      \* SpecSeg: what that call did (reads, iterations, Clear)
    segWeight,  \* SpecSeg: <<>>, then <<_computeWeight()>> of the result
    cmds,       \* Spec: the FilteredCommand objects of the palette
    lastOp,     \* Spec: the operation that produced the current state
    notified,   \* Spec: the PropertyChanged events that operation raised
    operands,   \* SpecCompare: three (Weight, Name) records
    cmpCall     \* SpecCompare: the last Compare call and what it returned

vars == <<scan, probe, segWeight, cmds, lastOp, notified, operands, cmpCall>>

segVars == <<scan, probe, segWeight>>
cmdVars == <<cmds, lastOp, notified>>
cmpVars == <<operands, cmpCall>>

---------------------------------------------------------------------------
(* Bounds of the model *)

MaxNameLen == 4
MaxFilterLen == 3

\* L' ', the character that ends a word
Space == 32

\* The code units of the modelled strings: ' ', 'A' and 'a'.
Alphabet == {Space, 65, 97}

RECURSIVE StringsUpTo(_, _)
StringsUpTo(chars, n) ==
    IF n = 0 THEN {<<>>}
    ELSE LET shorter == StringsUpTo(chars, n - 1)
         IN  shorter \cup {Append(s, c) : s \in shorter, c \in chars}

---------------------------------------------------------------------------
(* _computeHighlightedName *)

\* std::towlower in the C locale: only A..Z change.
towlower(c) == IF c >= 65 /\ c <= 90 THEN c + 32 ELSE c

RECURSIVE LowerCase(_)
LowerCase(s) == IF s = <<>> THEN <<>> ELSE <<towlower(Head(s))>> \o LowerCase(Tail(s))

\* winrt::make<HighlightedTextSegment>(text, isHighlighted)
HighlightedTextSegment(text, isHighlighted) ==
    [TextSegment |-> text, IsHighlighted |-> isHighlighted]

SegmentTextLowered(commandName, offset, size) ==
    LowerCase(SubSeq(commandName, offset + 1, offset + size))

\* winrt::hstring segment{ commandName.data() + offset, size }
SegmentText(commandName, offset, size) ==
    SubSeq(commandName, offset + 1, offset + size)

\* The locals before the for loop; an empty filter never enters it.
ScanInit(commandName, filter) ==
    [commandName |-> commandName,
     Filter |-> filter,
     pc |-> IF filter = <<>> THEN "tail" ELSE "scan",
     searchIdx |-> 1,
     isProcessingMatchedSegment |-> FALSE,
     nextOffsetToReport |-> 0,
     currentOffset |-> 0,
     segments |-> <<>>]

\* if (currentOffset == commandName.size())
NameExhausted(st) == st.currentOffset = Len(st.commandName)

EntireNameAppended(st) ==
    [st EXCEPT !.segments = Append(st.segments, HighlightedTextSegment(st.commandName, FALSE)),
               !.pc = "done"]

\* segments.Clear(); segments.Append(entireNameSegment); return
EntireNameResult(st) ==
    [st EXCEPT !.segments = <<HighlightedTextSegment(st.commandName, FALSE)>>,
               !.pc = "done"]

\* commandName[currentOffset]; the buffer ends with a NUL at index size().
CharAt(commandName, i) == IF i < Len(commandName) THEN commandName[i + 1] ELSE 0

IsCurrentCharMatchedCaseSensitive(st) ==
    CharAt(st.commandName, st.currentOffset) = towlower(st.Filter[st.searchIdx])

\* std::towlower(commandName[currentOffset]) == lowerCaseSearchChar
IsCurrentCharMatched(st) ==
    towlower(CharAt(st.commandName, st.currentOffset)) = towlower(st.Filter[st.searchIdx])

ShouldReportAlways(sizeToReport) == TRUE

\* if (sizeToReport > 0) inside the while loop
ShouldReport(sizeToReport) == sizeToReport > 0

\* The body of  if (isProcessingMatchedSegment != isCurrentCharMatched) { ... }
ConcludeSegment(st, isCurrentCharMatched) ==
    IF st.isProcessingMatchedSegment # isCurrentCharMatched
    THEN LET sizeToReport == st.currentOffset - st.nextOffsetToReport
             reported ==
               IF ShouldReport(sizeToReport)
               THEN [st EXCEPT
                       !.segments = Append(st.segments,
                           HighlightedTextSegment(
                               SegmentText(st.commandName, st.nextOffsetToReport, sizeToReport),
                               st.isProcessingMatchedSegment)),
                       !.nextOffsetToReport = st.currentOffset]
               ELSE st
         IN  [reported EXCEPT !.isProcessingMatchedSegment = isCurrentCharMatched]
    ELSE st

AdvanceCursorUnlessMatched(currentOffset, isCurrentCharMatched) ==
    IF isCurrentCharMatched THEN currentOffset ELSE currentOffset + 1

\* currentOffset++
AdvanceCursor(currentOffset, isCurrentCharMatched) == currentOffset + 1

\* One iteration of while (true) past the exhaustion test: classify the
\* character, conclude a segment, advance, and on a match leave the while
\* loop for the next searchChar (or for the code after the for loop).
ExamineChar(st) ==
    LET isCurrentCharMatched == IsCurrentCharMatched(st)
        concluded == ConcludeSegment(st, isCurrentCharMatched)
        advanced == [concluded EXCEPT
                       !.currentOffset = AdvanceCursor(st.currentOffset, isCurrentCharMatched)]
    IN  IF isCurrentCharMatched
        THEN [advanced EXCEPT
                !.searchIdx = st.searchIdx + 1,
                !.pc = IF st.searchIdx = Len(st.Filter) THEN "tail" ELSE "scan"]
        ELSE advanced

\* One iteration of the while (true) loop.
ScanStep(st) ==
    IF NameExhausted(st) THEN EntireNameResult(st) ELSE ExamineChar(st)

\* if (isProcessingMatchedSegment) { ... } after the for loop
ConcludeMatched(st) ==
    LET sizeToReport == st.currentOffset - st.nextOffsetToReport
    IN  IF st.isProcessingMatchedSegment /\ sizeToReport > 0
        THEN [st EXCEPT
                !.segments = Append(st.segments,
                    HighlightedTextSegment(
                        SegmentText(st.commandName, st.nextOffsetToReport, sizeToReport), TRUE)),
                !.nextOffsetToReport = st.currentOffset]
        ELSE st

\* The segment for all remaining characters, and the return.
ConcludeRemaining(st) ==
    LET sizeToReport == Len(st.commandName) - st.nextOffsetToReport
    IN  IF sizeToReport > 0
        THEN [st EXCEPT
                !.segments = Append(st.segments,
                    HighlightedTextSegment(
                        SegmentText(st.commandName, st.nextOffsetToReport, sizeToReport), FALSE)),
                !.pc = "done"]
        ELSE [st EXCEPT !.pc = "done"]

\* The code after the for loop.
TailStep(st) == ConcludeRemaining(ConcludeMatched(st))

RECURSIVE RunScan(_)
RunScan(st) ==
    CASE st.pc = "scan" -> RunScan(ScanStep(st))
      [] st.pc = "tail" -> RunScan(TailStep(st))
      [] OTHER -> st

\* _computeHighlightedName() of a FilteredCommand with this name and filter:
\* the segments of the HighlightedText it returns.
computeHighlightedName(commandName, filter) ==
    RunScan(ScanInit(commandName, filter)).segments

---------------------------------------------------------------------------
(* _computeWeight *)

\* (segmentSize <= 1) ? segmentSize : 1 + 2 * (segmentSize - 1)
SegmentScore(segmentSize) ==
    IF segmentSize <= 1 THEN segmentSize ELSE 1 + 2 * (segmentSize - 1)

FirstSegmentNotWordBeginning == FALSE

\* bool isNextSegmentWordBeginning = true;
FirstSegmentWordBeginning == TRUE

\* segmentSize > 0 && segmentText[segmentSize - 1] == L' '
EndsWord(segmentText) ==
    Len(segmentText) > 0 /\ segmentText[Len(segmentText)] = Space

\* The for loop of _computeWeight from segment i on.
RECURSIVE WeighFrom(_, _, _, _)
WeighFrom(segments, i, result, isNextSegmentWordBeginning) ==
    IF i > Len(segments) THEN result
    ELSE LET segment == segments[i]
             segmentSize == Len(segment.TextSegment)
             scored == IF segment.IsHighlighted
                       THEN result + SegmentScore(segmentSize)
                                   + (IF isNextSegmentWordBeginning THEN 1 ELSE 0)
                       ELSE result
         IN  WeighFrom(segments, i + 1, scored, EndsWord(segment.TextSegment))

\* _computeWeight() of a FilteredCommand whose _HighlightedName has these segments
computeWeight(segments) == WeighFrom(segments, 1, 0, FirstSegmentWordBeginning)

---------------------------------------------------------------------------
(* Compare *)

\* std::wstring_view::compare: code units in order, then the lengths.
RECURSIVE wstringCompare(_, _)
wstringCompare(a, b) ==
    CASE a = <<>> /\ b = <<>> -> 0
      [] a = <<>> -> -1
      [] b = <<>> -> 1
      [] Head(a) < Head(b) -> -1
      [] Head(a) > Head(b) -> 1
      [] OTHER -> wstringCompare(Tail(a), Tail(b))

CompareTiePrefersFirst(first, second) ==
    IF first.Weight = second.Weight
    THEN IF wstringCompare(first.Name, second.Name) <= 0 THEN 1 ELSE 0
    ELSE IF first.Weight > second.Weight THEN 1 ELSE 0

\* FilteredCommand::Compare: 1 when first should appear before second, else 0.
Compare(first, second) ==
    IF first.Weight = second.Weight
    THEN IF wstringCompare(first.Name, second.Name) < 0 THEN 1 ELSE 0
    ELSE IF first.Weight > second.Weight THEN 1 ELSE 0

---------------------------------------------------------------------------
(* SpecSeg: one call of _computeHighlightedName, an iteration at a time,   *)
(* for every name and filter within the bounds, then _computeWeight.       *)

SegNames == StringsUpTo(Alphabet, MaxNameLen)
SegFilters == StringsUpTo(Alphabet, MaxFilterLen)

IdleScan == ScanInit(<<>>, <<>>)
IdleProbe == [reads |-> <<>>, steps |-> 0, cleared |-> 0]
IdleCmds == <<>>
IdleOp == [op |-> "none", cmd |-> "none", other |-> "none", result |-> 0]
IdleOperands == <<>>
IdleCall == <<>>

SegIdle == scan = IdleScan /\ probe = IdleProbe /\ segWeight = <<>>
CmdIdle == cmds = IdleCmds /\ lastOp = IdleOp /\ notified = {}
CmpIdle == operands = IdleOperands /\ cmpCall = IdleCall

InitSeg ==
    /\ \E commandName \in SegNames, filter \in SegFilters :
           scan = ScanInit(commandName, filter)
    /\ probe = IdleProbe
    /\ segWeight = <<>>
    /\ CmdIdle
    /\ CmpIdle

\* One iteration of the while loop.  probe records the index the iteration
\* reads, counts the iteration and notes how many segments Clear() dropped.
ScanIteration ==
    /\ scan.pc = "scan"
    /\ scan' = ScanStep(scan)
    /\ probe' = IF NameExhausted(scan)
                THEN [probe EXCEPT !.steps = @ + 1, !.cleared = Len(scan.segments)]
                ELSE [probe EXCEPT !.steps = @ + 1,
                                   !.reads = Append(@, scan.currentOffset)]
    /\ UNCHANGED <<segWeight, cmdVars, cmpVars>>

\* The code after the for loop, to the return.
ScanTail ==
    /\ scan.pc = "tail"
    /\ scan' = TailStep(scan)
    /\ UNCHANGED <<probe, segWeight, cmdVars, cmpVars>>

\* _computeWeight on the returned segments.
Weigh ==
    /\ scan.pc = "done"
    /\ segWeight = <<>>
    /\ segWeight' = <<computeWeight(scan.segments)>>
    /\ UNCHANGED <<scan, probe, cmdVars, cmpVars>>

NextSeg == ScanIteration \/ ScanTail \/ Weigh

SpecSeg == InitSeg /\ [][NextSeg]_vars

\* The call runs to its return: the code is sequential and never waits.
SpecSegFair == SpecSeg /\ WF_vars(ScanIteration \/ ScanTail)

---------------------------------------------------------------------------
(* What the claims about the segments are stated with.  None of it is used *)
(* by the model of the code above.                                         *)

\* The characters of n at the positions in S, in order, from position i on.
RECURSIVE Spelled(_, _, _)
Spelled(n, S, i) ==
    IF i > Len(n) THEN <<>>
    ELSE (IF i \in S THEN <<n[i]>> ELSE <<>>) \o Spelled(n, S, i + 1)

\* f is a subsequence of n: some set of positions of n, read in increasing
\* order, spells f.
IsSubsequence(f, n) ==
    \E S \in SUBSET (1..Len(n)) : Spelled(n, S, 1) = f

FilterIsSubsequence(commandName, filter) ==
    IsSubsequence(LowerCase(filter), LowerCase(commandName))

RECURSIVE ConcatTexts(_)
ConcatTexts(segments) ==
    IF segments = <<>> THEN <<>>
    ELSE Head(segments).TextSegment \o ConcatTexts(Tail(segments))

\* The 0-based offset of the name at which segment i starts.
RECURSIVE SegmentStart(_, _)
SegmentStart(segments, i) ==
    IF i = 1 THEN 0
    ELSE SegmentStart(segments, i - 1) + Len(segments[i - 1].TextSegment)

\* The 0-based offsets of the name that highlighted segments cover.
HighlightedPositions(segments) ==
    UNION { { SegmentStart(segments, i) + k : k \in 0..(Len(segments[i].TextSegment) - 1) } :
            i \in {j \in 1..Len(segments) : segments[j].IsHighlighted} }

\* The greedy assignment from filter character i on, after offset prev:
\* the smallest later offset whose character equals it, lowercased; -1 and
\* nothing more once a character has none.
RECURSIVE GreedyFrom(_, _, _, _)
GreedyFrom(commandName, filter, i, prev) ==
    IF i > Len(filter) THEN <<>>
    ELSE LET later == {k \in (prev + 1)..(Len(commandName) - 1) :
                         towlower(commandName[k + 1]) = towlower(filter[i])}
         IN  IF later = {} THEN <<-1>>
             ELSE LET p == CHOOSE k \in later : \A m \in later : k <= m
                  IN  <<p>> \o GreedyFrom(commandName, filter, i + 1, p)

GreedyAssignment(commandName, filter) == GreedyFrom(commandName, filter, 1, -1)

Range(seq) == {seq[i] : i \in 1..Len(seq)}

Returned == scan.pc = "done"

\* C3: when the lowercased filter is not a subsequence of the lowercased
\* name, the call returns exactly one segment: the whole name, not
\* highlighted, whatever segments it had built before.
C3_NoMatchIsEntireName ==
    (Returned /\ ~FilterIsSubsequence(scan.commandName, scan.Filter))
        => scan.segments = <<[TextSegment |-> scan.commandName, IsHighlighted |-> FALSE]>>

\* A call that returned on exhaustion after Clear() dropped built segments.
C3_Witness ==
    /\ Returned
    /\ ~FilterIsSubsequence(scan.commandName, scan.Filter)
    /\ probe.cleared >= 2

\* C4: the texts of the returned segments, concatenated in order, are the
\* name, code unit for code unit (the case of the name is kept).
C4_LosslessPartition ==
    Returned => ConcatTexts(scan.segments) = scan.commandName

\* A match split into three segments whose highlighted text is a capital.
C4_Witness ==
    /\ Returned
    /\ Len(scan.segments) = 3
    /\ \E i \in 1..3 : scan.segments[i].IsHighlighted /\ scan.segments[i].TextSegment = <<65>>
    /\ scan.Filter = <<97>>

\* C5: for a non-empty filter, a result with a highlighted segment means
\* the lowercased filter is a subsequence of the lowercased name, and the
\* highlighted offsets are exactly the greedy assignment: one offset per
\* filter character, increasing, each the first match after the previous.
C5_HighlightIsGreedy ==
    (Returned /\ scan.Filter # <<>> /\ \E i \in 1..Len(scan.segments) : scan.segments[i].IsHighlighted)
        => LET greedy == GreedyAssignment(scan.commandName, scan.Filter)
           IN  /\ FilterIsSubsequence(scan.commandName, scan.Filter)
               /\ Len(greedy) = Len(scan.Filter)
               /\ \A i \in 1..Len(greedy) : greedy[i] >= 0
               /\ \A i, j \in 1..Len(greedy) : i < j => greedy[i] < greedy[j]
               /\ HighlightedPositions(scan.segments) = Range(greedy)
               /\ Cardinality(HighlightedPositions(scan.segments)) = Len(scan.Filter)

\* Two filter characters matched at offsets that are not adjacent.
C5_Witness ==
    /\ Returned
    /\ Len(scan.Filter) = 2
    /\ Cardinality({i \in 1..Len(scan.segments) : scan.segments[i].IsHighlighted}) = 2
    /\ HighlightedPositions(scan.segments) = {0, 2}

\* C6: the weight is 0 when the filter does not match the name, and it is
\* positive whenever all characters of the filter appear in order in the
\* name, case-insensitively.
C6_WeightPositiveIffMatch ==
    segWeight # <<>>
        => IF FilterIsSubsequence(scan.commandName, scan.Filter)
           THEN segWeight[1] > 0
           ELSE segWeight[1] = 0

\* C9 as claimed: no returned segment has zero-length text, for every name
\* and filter.
C9_NoEmptySegment ==
    Returned => \A i \in 1..Len(scan.segments) : Len(scan.segments[i].TextSegment) > 0

\* C9 amended: at every point of the call no segment in the list has
\* zero-length text, except the single entire-name segment returned for an
\* empty name and a non-empty filter.
C9_NoEmptySegmentButEmptyName ==
    \A i \in 1..Len(scan.segments) :
        Len(scan.segments[i].TextSegment) = 0
            => /\ Returned
               /\ scan.commandName = <<>>
               /\ scan.Filter # <<>>
               /\ scan.segments = <<[TextSegment |-> <<>>, IsHighlighted |-> FALSE]>>

\* A match at the first character of the name: the zero-length run before
\* it was skipped, and the first segment is the highlighted one.
C9_Witness ==
    /\ Returned
    /\ Len(scan.segments) >= 2
    /\ scan.segments[1].IsHighlighted

NoDuplicates(seq) == \A i, j \in 1..Len(seq) : i # j => seq[i] # seq[j]

CursorInBounds ==
    /\ scan.nextOffsetToReport <= scan.currentOffset
    /\ scan.currentOffset <= Len(scan.commandName)
    /\ \A i \in 1..Len(probe.reads) : probe.reads[i] >= 0 /\ probe.reads[i] < Len(scan.commandName)
    /\ NoDuplicates(probe.reads)
    /\ probe.steps <= Len(scan.commandName) + 1

CursorForward ==
    /\ scan'.currentOffset >= scan.currentOffset
    /\ scan'.currentOffset <= scan.currentOffset + 1
    /\ Len(probe'.reads) > Len(probe.reads) => scan'.currentOffset = scan.currentOffset + 1

\* C10: the cursor moves forward by one per examined character and never
\* back; nextOffsetToReport <= currentOffset <= length(name); the name is
\* read only below its length, each offset at most once; the while loop
\* runs at most length(name) + 1 iterations in all; and the call returns.
C10_CursorForwardAndReturns ==
    /\ []CursorInBounds
    /\ [][CursorForward]_vars
    /\ <>Returned

\* A filter longer than the name: the loop ran length(name) + 1 times.
C10_Witness ==
    /\ Returned
    /\ Len(scan.Filter) > Len(scan.commandName)
    /\ Len(scan.commandName) > 0
    /\ probe.steps = Len(scan.commandName) + 1
    /\ Len(probe.reads) = Len(scan.commandName)

---------------------------------------------------------------------------
(* Spec: two FilteredCommand objects, the operands of Compare, through     *)
(* UpdateFilter calls, PropertyChanged events of their commands and        *)
(* Compare calls, in any order.                                            *)

MaxCmdFilterLen == 1

Cmds == {"first", "second"}

SplitPane == <<83, 112, 108, 105, 116, 32, 80, 97, 110, 101>>   \* "Split Pane"
ClosePane == <<67, 108, 111, 115, 101, 32, 80, 97, 110, 101>>   \* "Close Pane"
FilterSp == <<115, 112>>                                         \* "sp"

\* The names a command takes: "", " p", "Split Pane", "Close Pane".
CmdNames == {<<>>, <<32, 112>>, SplitPane, ClosePane}

\* The filters typed: "sp", and the strings of 's' and 'p' within the bound.
CmdFilters == {FilterSp} \cup StringsUpTo({115, 112}, MaxCmdFilterLen)

\* The properties of a Command whose change raises its PropertyChanged.
CommandProperties == {"Name", "KeyChordText"}

\* winrt::make<HighlightedText>(segments): an object distinct from every
\* HighlightedText alive, those of the FilteredCommands in live.
HighlightedText(segments, live) ==
    [id |-> CHOOSE n \in 0..Cardinality(live) :
                /\ n \notin {c.HighlightedName.id : c \in live}
                /\ \A m \in 0..(n - 1) : m \in {c.HighlightedName.id : c \in live},
     Segments |-> segments]

\* What a generated property setter raises: PropertyChanged for its property.
SetterRaises(property) == {property}

\* The constructor: _Filter(L""), _Weight(0) and the highlighted name.
FilteredCommand(commandName, live) ==
    [Name |-> commandName,
     Filter |-> <<>>,
     Weight |-> 0,
     HighlightedName |-> HighlightedText(computeHighlightedName(commandName, <<>>), live)]

RecomputeWeightFirst(cmd, live) ==
    [cmd EXCEPT
        !.Weight = computeWeight(cmd.HighlightedName.Segments),
        !.HighlightedName = HighlightedText(computeHighlightedName(cmd.Name, cmd.Filter), live)]

\* HighlightedName(_computeHighlightedName()); Weight(_computeWeight());
Recompute(cmd, live) ==
    LET named == [cmd EXCEPT !.HighlightedName =
                     HighlightedText(computeHighlightedName(cmd.Name, cmd.Filter), live)]
    IN  [named EXCEPT !.Weight = computeWeight(named.HighlightedName.Segments)]

FilterChangedAlways(filter, current) == TRUE

\* if (filter != _Filter)
FilterChanged(filter, current) == filter # current

Live == {cmds[c] : c \in Cmds}

Op(op, cmd) == [op |-> op, cmd |-> cmd, other |-> "none", result |-> 0]

Init ==
    /\ \E firstName \in CmdNames, secondName \in CmdNames :
          LET first == FilteredCommand(firstName, {})
          IN  cmds = [c \in Cmds |-> IF c = "first" THEN first
                                     ELSE FilteredCommand(secondName, {first})]
    /\ lastOp = Op("ctor", "none")
    /\ notified = {}
    /\ SegIdle
    /\ CmpIdle

UpdateFilter(c, filter) ==
    /\ IF FilterChanged(filter, cmds[c].Filter)
       THEN /\ cmds' = [cmds EXCEPT ![c] = Recompute([@ EXCEPT !.Filter = filter], Live)]
            /\ notified' = SetterRaises("Filter") \cup SetterRaises("HighlightedName")
                               \cup SetterRaises("Weight")
       ELSE /\ cmds' = cmds
            /\ notified' = {}
    /\ lastOp' = Op("UpdateFilter", c)
    /\ UNCHANGED <<segVars, cmpVars>>

\* The command of c sets a property (its name becomes commandName when the
\* property is Name) and raises PropertyChanged; the handler the constructor
\* registered runs.
PropertyChanged(c, property, commandName) ==
    /\ IF property = "Name"
       THEN /\ cmds' = [cmds EXCEPT ![c] = Recompute([@ EXCEPT !.Name = commandName], Live)]
            /\ notified' = SetterRaises("HighlightedName") \cup SetterRaises("Weight")
       ELSE /\ cmds' = cmds
            /\ notified' = {}
    /\ lastOp' = Op(IF property = "Name" THEN "NameChanged" ELSE "OtherChanged", c)
    /\ UNCHANGED <<segVars, cmpVars>>

CompareCmds(a, b) ==
    /\ lastOp' = [op |-> "Compare", cmd |-> a, other |-> b,
                  result |-> Compare(cmds[a], cmds[b])]
    /\ notified' = {}
    /\ UNCHANGED <<cmds, segVars, cmpVars>>

Next ==
    \/ \E c \in Cmds, filter \in CmdFilters : UpdateFilter(c, filter)
    \/ \E c \in Cmds, commandName \in CmdNames : PropertyChanged(c, "Name", commandName)
    \/ \E c \in Cmds, property \in CommandProperties \ {"Name"} :
          PropertyChanged(c, property, cmds[c].Name)
    \/ \E a \in Cmds, b \in Cmds : CompareCmds(a, b)

Spec == Init /\ [][Next]_vars

\* C1: at creation and after every UpdateFilter call and PropertyChanged
\* event, in any order, the stored HighlightedName of each FilteredCommand
\* is what _computeHighlightedName gives for its name and stored filter and
\* its Weight is what _computeWeight gives for that HighlightedName; at
\* creation the filter is empty, the weight 0 and, for a non-empty name,
\* the highlighted name one unhighlighted segment holding the whole name.
C1_DerivedFieldsConsistent ==
    \A c \in Cmds :
        /\ cmds[c].HighlightedName.Segments = computeHighlightedName(cmds[c].Name, cmds[c].Filter)
        /\ cmds[c].Weight = computeWeight(cmds[c].HighlightedName.Segments)
        /\ lastOp.op = "ctor"
             => /\ cmds[c].Filter = <<>>
                /\ cmds[c].Weight = 0
                /\ cmds[c].Name # <<>>
                     => cmds[c].HighlightedName.Segments =
                            <<[TextSegment |-> cmds[c].Name, IsHighlighted |-> FALSE]>>

\* A name change of a command whose filter "sp" was set before.
C1_Witness ==
    /\ lastOp.op = "NameChanged"
    /\ cmds[lastOp.cmd].Name = ClosePane
    /\ cmds[lastOp.cmd].Filter = FilterSp
    /\ cmds[lastOp.cmd].Weight = 3
    /\ Len(cmds[lastOp.cmd].HighlightedName.Segments) = 5

\* C2: an UpdateFilter call with the filter the FilteredCommand already has
\* (the filter after the call is the filter before it) leaves every
\* FilteredCommand as it was, the HighlightedName object included, and
\* raises no PropertyChanged.
C2_SameFilterIsNoOp ==
    [][(lastOp'.op = "UpdateFilter" /\ cmds'[lastOp'.cmd].Filter = cmds[lastOp'.cmd].Filter)
          => (cmds' = cmds /\ notified' = {})]_vars

\* After an UpdateFilter call that changed nothing, on a non-empty filter.
C2_Witness ==
    /\ lastOp.op = "UpdateFilter"
    /\ notified = {}
    /\ cmds[lastOp.cmd].Filter = FilterSp

\* The segment at index i starts a word of the name: at its first
\* character or right after a space.
StartsWord(commandName, segments, i) ==
    LET start == SegmentStart(segments, i)
    IN  start = 0 \/ commandName[start] = Space

\* The weight read off the name: each highlighted segment gives its score,
\* and 1 more when it starts a word.
RECURSIVE WeightWithBonus(_, _, _)
WeightWithBonus(commandName, segments, i) ==
    IF i > Len(segments) THEN 0
    ELSE (IF segments[i].IsHighlighted
          THEN SegmentScore(Len(segments[i].TextSegment))
                   + (IF StartsWord(commandName, segments, i) THEN 1 ELSE 0)
          ELSE 0)
         + WeightWithBonus(commandName, segments, i + 1)

\* C8: with the filter "sp" on both, the weight of "Split Pane" is greater
\* than that of "Close Pane" and Compare puts "Split Pane" first; every
\* weight is the segment scores plus 1 for each highlighted segment that
\* begins at the first character of the name or right after a space.
C8_SplitPaneBeforeClosePane ==
    /\ \A a, b \in Cmds :
          (/\ cmds[a].Name = SplitPane /\ cmds[a].Filter = FilterSp
           /\ cmds[b].Name = ClosePane /\ cmds[b].Filter = FilterSp)
            => /\ cmds[a].Weight > cmds[b].Weight
               /\ Compare(cmds[a], cmds[b]) = 1
               /\ Compare(cmds[b], cmds[a]) = 0
               /\ (lastOp.op = "Compare" /\ lastOp.cmd = a /\ lastOp.other = b)
                     => lastOp.result = 1
    /\ \A c \in Cmds :
          cmds[c].Weight = WeightWithBonus(cmds[c].Name, cmds[c].HighlightedName.Segments, 1)

\* Compare(first, second) returned with "Split Pane" and "Close Pane", both
\* filtered by "sp".
C8_Witness ==
    /\ lastOp.op = "Compare"
    /\ lastOp.cmd = "first"
    /\ lastOp.other = "second"
    /\ lastOp.result = 1
    /\ cmds["first"].Name = SplitPane /\ cmds["first"].Filter = FilterSp
    /\ cmds["second"].Name = ClosePane /\ cmds["second"].Filter = FilterSp
    /\ cmds["first"].Weight = 4
    /\ cmds["second"].Weight = 3

---------------------------------------------------------------------------
(* SpecCompare: Compare on any three (Weight, Name) pairs.                 *)

MaxCmpNameLen == 2

\* Names of 'A' and 'a'; the weights of "Close Pane" and "Split Pane" for "sp".
CmpNames == StringsUpTo({65, 97}, MaxCmpNameLen)
CmpWeights == {3, 4}
CmpRecords == [Weight : CmpWeights, Name : CmpNames]

InitCompare ==
    /\ operands \in [1..3 -> CmpRecords]
    /\ cmpCall = IdleCall
    /\ SegIdle
    /\ CmdIdle

CallCompare(i, j) ==
    /\ cmpCall' = <<i, j, Compare(operands[i], operands[j])>>
    /\ UNCHANGED <<operands, segVars, cmdVars>>

\* Compare(first, second) on the first two records, either way round; the
\* third record is there for transitivity.
NextCompare == \E i \in 1..2, j \in 1..2 : i # j /\ CallCompare(i, j)

SpecCompare == InitCompare /\ [][NextCompare]_vars

\* a is before b in the lexicographic order of the code units: at the first
\* place where they differ a has the smaller one, or a is b cut short.
LexLess(a, b) ==
    \E k \in 0..Len(a) :
        /\ k <= Len(b)
        /\ SubSeq(a, 1, k) = SubSeq(b, 1, k)
        /\ \/ k = Len(a) /\ k < Len(b)
           \/ k < Len(a) /\ k < Len(b) /\ a[k + 1] < b[k + 1]

Before(a, b) == Compare(a, b) = 1

=============================================================================
